---- MODULE Spec2Model ----
(***************************************************************************)
(* pako-tts: the in-memory job registry and dispatch queue, the worker     *)
(* pool, the filesystem result store and the HTTP readers that race with   *)
(* the workers.                                                            *)
(*                                                                         *)
(* Granularity.  Queue.Enqueue stores the *domain.Job pointer in q.jobs,   *)
(* Queue.Dequeue hands the same pointer to the worker and Queue.GetJob     *)
(* returns it to the reader.  The worker mutates the Job through that      *)
(* pointer outside q.mu (job.SetProcessing(), job.UpdateProgress(..),      *)
(* job.SetFailed(..), job.SetCompleted(..)) and calls UpdateJob afterwards. *)
(* The record reachable from the registry is therefore the worker's own    *)
(* object, and every field assignment of those methods is one step here.   *)
(* Job.Status is a Go string: a two-word (pointer, length) header whose    *)
(* words are stored one after the other, so an unsynchronised reader can   *)
(* see the header between the two stores.                                  *)
(***************************************************************************)
EXTENDS Integers, Sequences, FiniteSets, TLC

\* ---- bounds of the model ----
NumJobs == 2
NumWorkers == 2
QueueCap == 1
MaxTime == 3
RetentionHours == 1
MaxCalls == 3
MaxFiles == 2
NumSync == 1
NumCallers == 2

JobIds == 1..NumJobs
Workers == 1..NumWorkers
SyncRequests == 1..NumSync
StorageCallers == 1..NumCallers
NoJob == 0
NoTime == -1

\* ---- domain.JobStatus ----
JobStatusQueued == "queued"
JobStatusProcessing == "processing"
JobStatusCompleted == "completed"
JobStatusFailed == "failed"
Statuses == {JobStatusQueued, JobStatusProcessing, JobStatusCompleted, JobStatusFailed}

\* ---- error messages that reach Job.ErrorMessage ----
ErrSynthesis == "synthesis failed"
ErrContextCanceled == "context canceled"
ErrReadAudio == "read error"
ErrStore == "failed to write audio file"
ErrJobNotFound == "JOB_NOT_FOUND"

VARIABLES
    job,        \* heap: the domain.Job object of each job id
    jobs,       \* Queue.jobs: the ids present in the registry map
    pending,    \* Queue.pending: the buffered channel
    closed,     \* Queue.closed, and the channel being closed
    spc,        \* position of the SubmitJob request creating each job
    wpc,        \* position of each worker goroutine
    wjob,       \* the job a worker holds (NoJob when none)
    werr,       \* the err local of processJob
    wnow,       \* the now local of SetProcessing/SetCompleted/SetFailed
    claimCount, \* how often Dequeue has returned each job
    synthLog,   \* per job, the results Provider.Synthesize has returned
    numWorkers, \* the numWorkers argument of Worker.Start
    started,    \* Worker.Start has run
    ctxDone,    \* the workers' context is cancelled
    wg,         \* Worker.wg
    mainpc,     \* position of main
    crashed,    \* the process panicked
    files,      \* Storage: last-modified time of the audio file of each id
    now,        \* the clock
    rpc,        \* position of the GetJobStatus request
    rjob,       \* the *domain.Job GetJob returned to it
    resp,       \* the JobStatusResponse being built
    seen,       \* per job, the last two statuses sent to the client
    bufferSize, \* the bufferSize argument of NewQueue: cap(q.pending)
    call,       \* the last Queue method call that returned: op, id, result
    ncalls,     \* per method, how many calls the callers of the Queue have made
    syncpc,     \* position of each POST /api/v1/tts request
    respc,      \* position of the GetJobResult request
    res,        \* the GetJobResult request: job id, response, Retrieve called
    disk,       \* Storage used directly: per id and format, the file's bytes and time
    inside      \* per caller of the Storage, the method in whose locked section it is

vars == <<job, jobs, pending, closed, spc, wpc, wjob, werr, wnow, claimCount, synthLog,
          numWorkers, started, ctxDone, wg, mainpc, crashed, files, now,
          rpc, rjob, resp, seen, bufferSize, call, ncalls, syncpc, respc, res, disk, inside>>

queueVars == <<jobs, pending, closed>>
workerVars == <<wpc, wjob, werr, wnow, claimCount, synthLog>>
poolVars == <<numWorkers, started, ctxDone, wg>>
readerVars == <<rpc, rjob, resp, seen>>
storeVars == <<respc, res, disk, inside>>
envVars == <<bufferSize, call, ncalls, syncpc, storeVars>>

\* ---- domain.Job ----

\* The value of a two-word string header: a status when both words belong to
\* the same string, otherwise bytes that are none of the four statuses.
StatusValue(ptr, len) == IF ptr = len THEN ptr ELSE "torn"

Status(j) == StatusValue(job[j].StatusPtr, job[j].StatusLen)

\* memory no request has allocated yet
Unallocated ==
    [StatusPtr |-> "", StatusLen |-> "", StartedAt |-> NoTime, CompletedAt |-> NoTime,
     ProgressPercentage |-> 0, ErrorMessage |-> "", ResultPath |-> "", ExpiresAt |-> NoTime,
     Text |-> <<>>]

\* a text is a sequence of characters; the text of a request whose text is
\* of no interest
SomeText == <<"a">>

\* mutant of NewJob: Status is left at its zero value
NewJobNoStatus ==
    [StatusPtr |-> "", StatusLen |-> "",
     StartedAt |-> NoTime, CompletedAt |-> NoTime,
     ProgressPercentage |-> 0, ErrorMessage |-> "", ResultPath |-> "", ExpiresAt |-> NoTime,
     Text |-> SomeText]

\* domain.NewJob
NewJob ==
    [StatusPtr |-> JobStatusQueued, StatusLen |-> JobStatusQueued,
     StartedAt |-> NoTime, CompletedAt |-> NoTime,
     ProgressPercentage |-> 0, ErrorMessage |-> "", ResultPath |-> "", ExpiresAt |-> NoTime,
     Text |-> SomeText]

\* Job.IsExpired at clock value t
IsExpired(j, t) == IF job[j].ExpiresAt = NoTime THEN FALSE ELSE t > job[j].ExpiresAt

\* ---- filesystem.Storage ----
FilePath(j) == "audio"

\* Storage.Retrieve succeeds
RetrieveOK(j) == files[j] # NoTime

TypeOK ==
    /\ jobs \subseteq JobIds
    /\ pending \in Seq(JobIds)
    /\ closed \in BOOLEAN
    /\ wg \in 0..NumWorkers
    /\ now \in 0..MaxTime

\* the Queue methods whose calls are counted
QueueOps == {"Dequeue", "UpdateJob", "DeleteJob", "Close"}

\* no Queue method has returned yet
NoCall == [op |-> "", id |-> NoJob, result |-> ""]

\* the audio formats the Storage knows, in the order Retrieve tries them
Formats == <<"mp3", "wav">>

\* no file of that name in the storage directory
NoFile == [bytes |-> "", modTime |-> NoTime]

\* the files Store can write: <id>.<format>
StoreKeys == JobIds \X {Formats[i] : i \in 1..Len(Formats)}

\* a caller of the Storage that holds neither s.mu.Lock nor s.mu.RLock
Outside == [op |-> ""]

\* no GetJobResult request has been answered
NoResult == [id |-> NoJob, outcome |-> "", retrieved |-> FALSE]

\* NewQueue, NewWorker, NewStorage: the objects before anything has run
InitObjects ==
    /\ job = [j \in JobIds |-> Unallocated]
    /\ jobs = {}
    /\ pending = <<>>
    /\ closed = FALSE
    /\ wpc = [w \in Workers |-> "idle"]
    /\ wjob = [w \in Workers |-> NoJob]
    /\ werr = [w \in Workers |-> ""]
    /\ wnow = [w \in Workers |-> 0]
    /\ claimCount = [j \in JobIds |-> 0]
    /\ synthLog = [j \in JobIds |-> <<>>]
    /\ started = FALSE
    /\ ctxDone = FALSE
    /\ wg = 0
    /\ crashed = FALSE
    /\ files = [j \in JobIds |-> NoTime]
    /\ now = 0
    /\ rpc = "idle"
    /\ rjob = NoJob
    /\ resp = [status |-> "", progress |-> 0, completedAt |-> NoTime]
    /\ seen = [j \in JobIds |-> <<"", "">>]
    /\ call = NoCall
    /\ ncalls = [op \in QueueOps |-> 0]
    /\ syncpc = [r \in SyncRequests |-> "idle"]
    /\ respc = "idle"
    /\ res = NoResult
    /\ disk = [k \in StoreKeys |-> NoFile]
    /\ inside = [c \in StorageCallers |-> Outside]

InitCommon ==
    /\ InitObjects
    /\ mainpc = "start"

Init ==
    /\ InitCommon
    /\ spc = [j \in JobIds |-> "new"]
    /\ numWorkers = NumWorkers
    /\ bufferSize = QueueCap

\* ---- memory.Queue ----

\* mutant of SubmitJobEnqueue: the job is put into q.jobs before the closed
\* check
SubmitJobEnqueueInserts(j) ==
    /\ ~crashed
    /\ mainpc = "serving"
    /\ spc[j] = "new"
    /\ \A i \in JobIds : i < j => spc[i] # "new"
    /\ job' = [job EXCEPT ![j] = NewJob]
    /\ spc' = [spc EXCEPT ![j] = IF closed THEN "rejected" ELSE "sending"]
    /\ jobs' = jobs \cup {j}
    /\ UNCHANGED <<pending, closed, workerVars, poolVars, mainpc, crashed, files, now, readerVars, envVars>>

\* Queue.Enqueue up to q.mu.Unlock(), called by JobsHandler.SubmitJob on a job
\* just built by NewJob: the closed check and the insertion into q.jobs.
\* Job ids are fresh uuids; they are numbered in the order of creation.
SubmitJobEnqueue(j) ==
    /\ ~crashed
    /\ mainpc = "serving"
    /\ spc[j] = "new"
    /\ \A i \in JobIds : i < j => spc[i] # "new"
    /\ job' = [job EXCEPT ![j] = NewJob]
    /\ IF closed
       THEN /\ spc' = [spc EXCEPT ![j] = "rejected"]
            /\ jobs' = jobs
       ELSE /\ spc' = [spc EXCEPT ![j] = "sending"]
            /\ jobs' = jobs \cup {j}
    /\ UNCHANGED <<pending, closed, workerVars, poolVars, mainpc, crashed, files, now, readerVars, envVars>>

\* the texts clients send: none, blanks only, and texts with a letter
Texts == {<<>>, <<" ">>, <<" ", " ">>, <<"a">>, <<" ", "a">>}

\* JobsHandler.SubmitJob with the text of the request: an empty text is
\* answered with ErrValidation; for any other text the job is built by NewJob
\* and handed to Queue.Enqueue (here up to q.mu.Unlock(), as SubmitJobEnqueue)
SubmitJob(j, text) ==
    /\ ~crashed
    /\ mainpc = "serving"
    /\ spc[j] = "new"
    /\ \A i \in JobIds : i < j => spc[i] # "new"
    /\ IF text = <<>>
       THEN /\ spc' = [spc EXCEPT ![j] = "invalid"]
            /\ UNCHANGED <<job, jobs>>
       ELSE /\ job' = [job EXCEPT ![j] = [NewJob EXCEPT !.Text = text]]
            /\ IF closed
               THEN /\ spc' = [spc EXCEPT ![j] = "rejected"]
                    /\ jobs' = jobs
               ELSE /\ spc' = [spc EXCEPT ![j] = "sending"]
                    /\ jobs' = jobs \cup {j}
    /\ UNCHANGED <<pending, closed, workerVars, poolVars, mainpc, crashed, files, now, readerVars, envVars>>

\* mutant of EnqueueSend: the send does not wait for room in the buffer
EnqueueSendUnbounded(j) ==
    /\ ~crashed
    /\ spc[j] = "sending"
    /\ IF closed
       THEN /\ crashed' = TRUE
            /\ spc' = [spc EXCEPT ![j] = "panicked"]
            /\ pending' = pending
       ELSE /\ pending' = Append(pending, j)
            /\ spc' = [spc EXCEPT ![j] = "done"]
            /\ crashed' = crashed
    /\ UNCHANGED <<job, jobs, closed, workerVars, poolVars, mainpc, files, now, readerVars, envVars>>

\* Queue.Enqueue: case q.pending <- job.  The send blocks while the buffer
\* is full and panics once the channel is closed.
EnqueueSend(j) ==
    /\ ~crashed
    /\ spc[j] = "sending"
    /\ IF closed
       THEN /\ crashed' = TRUE
            /\ spc' = [spc EXCEPT ![j] = "panicked"]
            /\ pending' = pending
       ELSE /\ Len(pending) < bufferSize
            /\ pending' = Append(pending, j)
            /\ spc' = [spc EXCEPT ![j] = "done"]
            /\ crashed' = crashed
    /\ UNCHANGED <<job, jobs, closed, workerVars, poolVars, mainpc, files, now, readerVars, envVars>>

\* Queue.UpdateJob: nil when the id is in q.jobs (the map keeps pointing at
\* the same object), ErrJobNotFound otherwise; q.jobs is unchanged either way.
UpdateJobOK(j) == j \in jobs

\* mutant of DeleteJob: an absent id is an error
DeleteJobIfPresent(j) ==
    /\ jobs' = jobs \ {j}
    /\ call' = [op |-> "DeleteJob", id |-> j,
                result |-> IF j \in jobs THEN "nil" ELSE ErrJobNotFound]

\* Queue.DeleteJob: delete(q.jobs, jobID); return nil.  The router registers
\* no route that calls it, so it is not a step of the running service.
DeleteJob(j) ==
    /\ jobs' = jobs \ {j}
    /\ call' = [op |-> "DeleteJob", id |-> j, result |-> "nil"]

\* mutant of QueueClose: a call on a closed queue opens it again
QueueCloseReopens == closed' = ~closed

\* Queue.Close: if !q.closed { q.closed = true; close(q.pending) }
QueueClose == closed' = TRUE

\* ---- memory.Worker ----

\* Worker.Start: ctx, w.cancel = context.WithCancel(ctx); numWorkers times
\* w.wg.Add(1); go w.run(ctx, i)
WorkerStart ==
    /\ ~crashed
    /\ mainpc = "start"
    /\ mainpc' = "serving"
    /\ started' = TRUE
    /\ wg' = numWorkers
    /\ wpc' = [w \in Workers |-> IF w <= numWorkers THEN "loop" ELSE "idle"]
    /\ UNCHANGED <<job, queueVars, spc, wjob, werr, wnow, claimCount, synthLog, numWorkers, ctxDone,
                   crashed, files, now, readerVars, envVars>>

\* Worker.run returns: defer w.wg.Done()
RunReturn(w) ==
    /\ wpc' = [wpc EXCEPT ![w] = "exited"]
    /\ wg' = wg - 1

\* Worker.run: select { case <-ctx.Done(): return; default: Dequeue }
RunSelect(w) ==
    /\ ~crashed
    /\ wpc[w] = "loop"
    /\ IF ctxDone
       THEN RunReturn(w)
       ELSE /\ wpc' = [wpc EXCEPT ![w] = "dequeue"]
            /\ wg' = wg
    /\ UNCHANGED <<job, queueVars, spc, wjob, werr, wnow, claimCount, synthLog, numWorkers, started,
                   ctxDone, mainpc, crashed, files, now, readerVars, envVars>>

\* mutant of Dequeue: the job sent last is received first
DequeueLast(w) ==
    /\ pending' = SubSeq(pending, 1, Len(pending) - 1)
    /\ wjob' = [wjob EXCEPT ![w] = pending[Len(pending)]]
    /\ claimCount' = [claimCount EXCEPT ![pending[Len(pending)]] = @ + 1]

\* mutant of Dequeue: the job is read but stays in the channel
DequeuePeek(w) ==
    /\ pending' = pending
    /\ wjob' = [wjob EXCEPT ![w] = Head(pending)]
    /\ claimCount' = [claimCount EXCEPT ![Head(pending)] = @ + 1]

\* Queue.Dequeue: case job, ok := <-q.pending with ok; run goes to processJob
Dequeue(w) ==
    /\ pending' = Tail(pending)
    /\ wjob' = [wjob EXCEPT ![w] = Head(pending)]
    /\ claimCount' = [claimCount EXCEPT ![Head(pending)] = @ + 1]

DequeueJob(w) ==
    /\ ~crashed
    /\ wpc[w] = "dequeue"
    /\ pending # <<>>
    /\ Dequeue(w)
    /\ wpc' = [wpc EXCEPT ![w] = "SetProcessing"]
    /\ UNCHANGED <<job, jobs, closed, spc, werr, wnow, synthLog, poolVars, mainpc, crashed, files, now,
                   readerVars, envVars>>

\* Queue.Dequeue: the channel is closed and drained (job == nil): run returns.
\* main calls queue.Close() only after Worker.Stop has returned, when no
\* worker is left to take this branch, so it is not a step of the service.
DequeueClosed(w) ==
    /\ ~crashed
    /\ wpc[w] = "dequeue"
    /\ pending = <<>>
    /\ closed
    /\ RunReturn(w)
    /\ UNCHANGED <<job, queueVars, spc, wjob, werr, wnow, claimCount, synthLog, numWorkers, started,
                   ctxDone, mainpc, crashed, files, now, readerVars, envVars>>

\* Queue.Dequeue: case <-ctx.Done(): return nil, ctx.Err(); run returns
DequeueCanceled(w) ==
    /\ ~crashed
    /\ wpc[w] = "dequeue"
    /\ ctxDone
    /\ RunReturn(w)
    /\ UNCHANGED <<job, queueVars, spc, wjob, werr, wnow, claimCount, synthLog, numWorkers, started,
                   ctxDone, mainpc, crashed, files, now, readerVars, envVars>>

\* ---- Worker.processJob, one step per shared-memory access ----

\* what a processJob step leaves alone besides job, wpc and the named locals
StepFrame == UNCHANGED <<queueVars, spc, wjob, claimCount, synthLog, poolVars, mainpc,
                         crashed, now, readerVars, envVars>>

SynthFrame == UNCHANGED <<queueVars, spc, wjob, claimCount, poolVars, mainpc, crashed, now,
                          readerVars, envVars>>

Goto(w, label) == wpc' = [wpc EXCEPT ![w] = label]

\* one field assignment j.<field> = v through the worker's pointer
SetField(w, field, v) == job' = [job EXCEPT ![wjob[w]][field] = v]

\* j.Status = s, first store: one of the two header words
StoreStatusWord(w, s) ==
    \E word \in {"StatusPtr", "StatusLen"} : SetField(w, word, s)

\* j.Status = s, second store: the header is whole again
StoreStatus(w, s) ==
    job' = [job EXCEPT ![wjob[w]].StatusPtr = s, ![wjob[w]].StatusLen = s]

\* mutant of ProcessJobReturn: the worker goroutine ends with the job
ProcessJobReturnExits(w) ==
    /\ Goto(w, "exited")
    /\ wjob' = [wjob EXCEPT ![w] = NoJob]
    /\ werr' = [werr EXCEPT ![w] = ""]
    /\ wnow' = [wnow EXCEPT ![w] = 0]

\* the process runs until a goroutine panics
\* processJob returns to run's loop
ProcessJobReturn(w) ==
    /\ Goto(w, "loop")
    /\ wjob' = [wjob EXCEPT ![w] = NoJob]
    /\ werr' = [werr EXCEPT ![w] = ""]
    /\ wnow' = [wnow EXCEPT ![w] = 0]

\* Job.SetProcessing: now := time.Now().UTC(); j.Status = JobStatusProcessing
SetProcessingStatusWord(w) ==
    /\ ~crashed
    /\ wpc[w] = "SetProcessing"
    /\ wnow' = [wnow EXCEPT ![w] = now]
    /\ StoreStatusWord(w, JobStatusProcessing)
    /\ Goto(w, "SetProcessing.Status")
    /\ UNCHANGED <<werr, files>>
    /\ StepFrame

SetProcessingStatus(w) ==
    /\ ~crashed
    /\ wpc[w] = "SetProcessing.Status"
    /\ StoreStatus(w, JobStatusProcessing)
    /\ Goto(w, "SetProcessing.StartedAt")
    /\ UNCHANGED <<werr, wnow, files>>
    /\ StepFrame

\* Job.SetProcessing: j.StartedAt = &now
SetProcessingStartedAt(w) ==
    /\ ~crashed
    /\ wpc[w] = "SetProcessing.StartedAt"
    /\ SetField(w, "StartedAt", wnow[w])
    /\ Goto(w, "UpdateJob.processing")
    /\ UNCHANGED <<werr, wnow, files>>
    /\ StepFrame

\* mutant of UpdateJobProcessing: the result of UpdateJob is ignored
UpdateJobProcessingIgnored(w) ==
    /\ ~crashed
    /\ wpc[w] = "UpdateJob.processing"
    /\ Goto(w, "UpdateProgress.10")
    /\ UNCHANGED <<wjob, werr, wnow>>
    /\ UNCHANGED <<job, queueVars, spc, claimCount, synthLog, poolVars, mainpc, crashed, files, now,
                   readerVars, envVars>>

\* processJob: if err := w.queue.UpdateJob(ctx, job); err != nil { return }
UpdateJobProcessing(w) ==
    /\ ~crashed
    /\ wpc[w] = "UpdateJob.processing"
    /\ IF UpdateJobOK(wjob[w])
       THEN /\ Goto(w, "UpdateProgress.10")
            /\ UNCHANGED <<wjob, werr, wnow>>
       ELSE ProcessJobReturn(w)
    /\ UNCHANGED <<job, queueVars, spc, claimCount, synthLog, poolVars, mainpc, crashed, files, now,
                   readerVars, envVars>>

\* processJob: job.UpdateProgress(p, ..); w.queue.UpdateJob(ctx, job) with the
\* result ignored
UpdateProgress(w, p, from, to) ==
    /\ ~crashed
    /\ wpc[w] = from
    /\ SetField(w, "ProgressPercentage", p)
    /\ Goto(w, to)
    /\ UNCHANGED <<werr, wnow, files>>
    /\ StepFrame

UpdateProgress10(w) == UpdateProgress(w, 10, "UpdateProgress.10", "UpdateProgress.30")

UpdateProgress30(w) == UpdateProgress(w, 30, "UpdateProgress.30", "Synthesize")

\* processJob: w.provider.Synthesize(ctx, req) is entered
SynthesizeCall(w) ==
    /\ ~crashed
    /\ wpc[w] = "Synthesize"
    /\ Goto(w, "Synthesize.wait")
    /\ UNCHANGED <<job, werr, wnow, files>>
    /\ StepFrame

\* the results Provider.Synthesize can return: the http request carries ctx,
\* so with ctx cancelled Client.TextToSpeech fails; otherwise the remote
\* service answers or rejects
SynthesizeResults == IF ctxDone THEN {ErrContextCanceled} ELSE {"", ErrSynthesis}

\* mutant of SynthesizeReturn: a failed call is made again
SynthesizeReturnRetries(w) ==
    /\ ~crashed
    /\ wpc[w] = "Synthesize.wait"
    /\ \E err \in SynthesizeResults :
          /\ werr' = [werr EXCEPT ![w] = err]
          /\ synthLog' = [synthLog EXCEPT ![wjob[w]] = Append(@, err)]
          /\ Goto(w, IF err = "" THEN "UpdateProgress.70" ELSE "Synthesize")
    /\ UNCHANGED <<job, wnow, files>>
    /\ SynthFrame

\* processJob: result, err := w.provider.Synthesize(ctx, req)
SynthesizeReturn(w) ==
    /\ ~crashed
    /\ wpc[w] = "Synthesize.wait"
    /\ \E err \in SynthesizeResults :
          /\ werr' = [werr EXCEPT ![w] = err]
          /\ synthLog' = [synthLog EXCEPT ![wjob[w]] = Append(@, err)]
          /\ Goto(w, IF err = "" THEN "UpdateProgress.70" ELSE "SetFailed")
    /\ UNCHANGED <<job, wnow, files>>
    /\ SynthFrame

\* mutant of UpdateProgress70: the progress is put back to 20
UpdateProgress70Back(w) == UpdateProgress(w, 20, "UpdateProgress.70", "ReadAll")

UpdateProgress70(w) == UpdateProgress(w, 70, "UpdateProgress.70", "ReadAll")

\* processJob: audioData, err := io.ReadAll(result.Audio)
ReadAll(w) ==
    /\ ~crashed
    /\ wpc[w] = "ReadAll"
    /\ \E err \in {"", ErrReadAudio} :
          /\ werr' = [werr EXCEPT ![w] = err]
          /\ Goto(w, IF err = "" THEN "UpdateProgress.90" ELSE "SetFailed")
    /\ UNCHANGED <<job, wnow, files>>
    /\ StepFrame

UpdateProgress90(w) == UpdateProgress(w, 90, "UpdateProgress.90", "Store")

\* Storage.Store: os.WriteFile of <id>.<format>, whose last-modified time is
\* the time of the write
Store(w) ==
    /\ ~crashed
    /\ wpc[w] = "Store"
    /\ \E err \in {"", ErrStore} :
          /\ werr' = [werr EXCEPT ![w] = err]
          /\ files' = IF err = "" THEN [files EXCEPT ![wjob[w]] = now] ELSE files
          /\ Goto(w, IF err = "" THEN "SetCompleted" ELSE "SetFailed")
    /\ UNCHANGED <<job, wnow>>
    /\ StepFrame

\* Job.SetFailed: now := time.Now().UTC(); j.Status = JobStatusFailed
SetFailedStatusWord(w) ==
    /\ ~crashed
    /\ wpc[w] = "SetFailed"
    /\ wnow' = [wnow EXCEPT ![w] = now]
    /\ StoreStatusWord(w, JobStatusFailed)
    /\ Goto(w, "SetFailed.Status")
    /\ UNCHANGED <<werr, files>>
    /\ StepFrame

SetFailedStatus(w) ==
    /\ ~crashed
    /\ wpc[w] = "SetFailed.Status"
    /\ StoreStatus(w, JobStatusFailed)
    /\ Goto(w, "SetFailed.CompletedAt")
    /\ UNCHANGED <<werr, wnow, files>>
    /\ StepFrame

\* mutant of SetFailedCompletedAt: the failure also clears StartedAt
SetFailedClearsStartedAt(w) ==
    /\ ~crashed
    /\ wpc[w] = "SetFailed.CompletedAt"
    /\ job' = [job EXCEPT ![wjob[w]].CompletedAt = wnow[w],
                          ![wjob[w]].StartedAt = NoTime]
    /\ Goto(w, "SetFailed.ErrorMessage")
    /\ UNCHANGED <<werr, wnow, files>>
    /\ StepFrame

\* Job.SetFailed: j.CompletedAt = &now
SetFailedCompletedAt(w) ==
    /\ ~crashed
    /\ wpc[w] = "SetFailed.CompletedAt"
    /\ SetField(w, "CompletedAt", wnow[w])
    /\ Goto(w, "SetFailed.ErrorMessage")
    /\ UNCHANGED <<werr, wnow, files>>
    /\ StepFrame

\* mutant of SetFailedErrorMessage: the failure also resets the progress
SetFailedResetsProgress(w) ==
    /\ ~crashed
    /\ wpc[w] = "SetFailed.ErrorMessage"
    /\ job' = [job EXCEPT ![wjob[w]].ErrorMessage = werr[w],
                          ![wjob[w]].ProgressPercentage = 0]
    /\ ProcessJobReturn(w)
    /\ UNCHANGED <<queueVars, spc, claimCount, synthLog, poolVars, mainpc, crashed, files, now,
                   readerVars, envVars>>

\* Job.SetFailed: j.ErrorMessage = errMsg; then processJob calls UpdateJob,
\* ignores its result and returns
SetFailedErrorMessage(w) ==
    /\ ~crashed
    /\ wpc[w] = "SetFailed.ErrorMessage"
    /\ SetField(w, "ErrorMessage", werr[w])
    /\ ProcessJobReturn(w)
    /\ UNCHANGED <<queueVars, spc, claimCount, synthLog, poolVars, mainpc, crashed, files, now,
                   readerVars, envVars>>

\* Job.SetCompleted: now := time.Now().UTC(); j.Status = JobStatusCompleted
SetCompletedStatusWord(w) ==
    /\ ~crashed
    /\ wpc[w] = "SetCompleted"
    /\ wnow' = [wnow EXCEPT ![w] = now]
    /\ StoreStatusWord(w, JobStatusCompleted)
    /\ Goto(w, "SetCompleted.Status")
    /\ UNCHANGED <<werr, files>>
    /\ StepFrame

SetCompletedStatus(w) ==
    /\ ~crashed
    /\ wpc[w] = "SetCompleted.Status"
    /\ StoreStatus(w, JobStatusCompleted)
    /\ Goto(w, "SetCompleted.CompletedAt")
    /\ UNCHANGED <<werr, wnow, files>>
    /\ StepFrame

\* Job.SetCompleted: j.CompletedAt = &now
SetCompletedCompletedAt(w) ==
    /\ ~crashed
    /\ wpc[w] = "SetCompleted.CompletedAt"
    /\ SetField(w, "CompletedAt", wnow[w])
    /\ Goto(w, "SetCompleted.ResultPath")
    /\ UNCHANGED <<werr, wnow, files>>
    /\ StepFrame

\* Job.SetCompleted: j.ResultPath = resultPath
SetCompletedResultPath(w) ==
    /\ ~crashed
    /\ wpc[w] = "SetCompleted.ResultPath"
    /\ SetField(w, "ResultPath", FilePath(wjob[w]))
    /\ Goto(w, "SetCompleted.ExpiresAt")
    /\ UNCHANGED <<werr, wnow, files>>
    /\ StepFrame

\* Job.SetCompleted: expiresAt := now.Add(retentionHours * time.Hour)
ExpiresAtOf(t) == t + RetentionHours

\* Job.SetCompleted: j.ExpiresAt = &expiresAt
SetCompletedExpiresAt(w) ==
    /\ ~crashed
    /\ wpc[w] = "SetCompleted.ExpiresAt"
    /\ SetField(w, "ExpiresAt", ExpiresAtOf(wnow[w]))
    /\ Goto(w, "SetCompleted.Progress")
    /\ UNCHANGED <<werr, wnow, files>>
    /\ StepFrame

\* Job.SetCompleted: j.ProgressPercentage = 100; then processJob calls
\* UpdateJob (a failure is only logged) and returns
SetCompletedProgress(w) ==
    /\ ~crashed
    /\ wpc[w] = "SetCompleted.Progress"
    /\ SetField(w, "ProgressPercentage", 100)
    /\ ProcessJobReturn(w)
    /\ UNCHANGED <<queueVars, spc, claimCount, synthLog, poolVars, mainpc, crashed, files, now,
                   readerVars, envVars>>

ProcessJob(w) ==
    \/ SetProcessingStatusWord(w)
    \/ SetProcessingStatus(w)
    \/ SetProcessingStartedAt(w)
    \/ UpdateJobProcessing(w)
    \/ UpdateProgress10(w)
    \/ UpdateProgress30(w)
    \/ SynthesizeCall(w)
    \/ SynthesizeReturn(w)
    \/ UpdateProgress70(w)
    \/ ReadAll(w)
    \/ UpdateProgress90(w)
    \/ Store(w)
    \/ SetFailedStatusWord(w)
    \/ SetFailedStatus(w)
    \/ SetFailedCompletedAt(w)
    \/ SetFailedErrorMessage(w)
    \/ SetCompletedStatusWord(w)
    \/ SetCompletedStatus(w)
    \/ SetCompletedCompletedAt(w)
    \/ SetCompletedResultPath(w)
    \/ SetCompletedExpiresAt(w)
    \/ SetCompletedProgress(w)

\* ---- main: the shutdown sequence ----

\* main: <-quit; server.Shutdown(shutdownCtx): no new request is accepted
MainShutdown ==
    /\ ~crashed
    /\ mainpc = "serving"
    /\ mainpc' = "cancel"
    /\ UNCHANGED <<job, queueVars, spc, workerVars, poolVars, crashed, files, now, readerVars, envVars>>

\* main: cancel(), then Worker.Stop: w.cancel()
WorkerStopCancel ==
    /\ ~crashed
    /\ mainpc = "cancel"
    /\ ctxDone' = TRUE
    /\ mainpc' = "wait"
    /\ UNCHANGED <<job, queueVars, spc, workerVars, numWorkers, started, wg, crashed, files, now,
                   readerVars, envVars>>

\* mutant of WorkerStopWait: Stop returns without the join
WorkerStopNoWait ==
    /\ ~crashed
    /\ mainpc = "wait"
    /\ mainpc' = "close"
    /\ UNCHANGED <<job, queueVars, spc, workerVars, poolVars, crashed, files, now, readerVars, envVars>>

\* Worker.Stop: w.wg.Wait() returns
WorkerStopWait ==
    /\ ~crashed
    /\ mainpc = "wait"
    /\ wg = 0
    /\ mainpc' = "close"
    /\ UNCHANGED <<job, queueVars, spc, workerVars, poolVars, crashed, files, now, readerVars, envVars>>

\* main: queue.Close()
MainClose ==
    /\ ~crashed
    /\ mainpc = "close"
    /\ QueueClose
    /\ mainpc' = "done"
    /\ UNCHANGED <<job, jobs, pending, spc, workerVars, poolVars, crashed, files, now, readerVars, envVars>>

\* ---- JobsHandler.GetJobStatus ----

\* job, err := h.queue.GetJob(ctx, jobID): the pointer stored in q.jobs
GetJob(j) ==
    /\ ~crashed
    /\ mainpc = "serving"
    /\ rpc = "idle"
    /\ j \in jobs
    /\ rjob' = j
    /\ rpc' = "Status"
    /\ UNCHANGED <<job, queueVars, spc, workerVars, poolVars, mainpc, crashed, files, now,
                   resp, seen, envVars>>

\* Status: string(job.Status), the two header words as they are now
GetJobStatusStatus ==
    /\ ~crashed
    /\ rpc = "Status"
    /\ resp' = [resp EXCEPT !.status = Status(rjob)]
    /\ rpc' = "ProgressPercentage"
    /\ UNCHANGED <<job, queueVars, spc, workerVars, poolVars, mainpc, crashed, files, now,
                   rjob, seen, envVars>>

\* ProgressPercentage: job.ProgressPercentage
GetJobStatusProgress ==
    /\ ~crashed
    /\ rpc = "ProgressPercentage"
    /\ resp' = [resp EXCEPT !.progress = job[rjob].ProgressPercentage]
    /\ rpc' = "CompletedAt"
    /\ UNCHANGED <<job, queueVars, spc, workerVars, poolVars, mainpc, crashed, files, now,
                   rjob, seen, envVars>>

\* if job.CompletedAt != nil { response.CompletedAt = ... }
GetJobStatusCompletedAt ==
    /\ ~crashed
    /\ rpc = "CompletedAt"
    /\ resp' = [resp EXCEPT !.completedAt = job[rjob].CompletedAt]
    /\ rpc' = "WriteJSON"
    /\ UNCHANGED <<job, queueVars, spc, workerVars, poolVars, mainpc, crashed, files, now,
                   rjob, seen, envVars>>

NoResponse == [status |-> "", progress |-> 0, completedAt |-> NoTime]

\* middleware.WriteJSON(w, http.StatusOK, response): the client receives it
GetJobStatusWriteJSON ==
    /\ ~crashed
    /\ rpc = "WriteJSON"
    /\ seen' = [seen EXCEPT ![rjob] = <<seen[rjob][2], resp.status>>]
    /\ rpc' = "idle"
    /\ rjob' = NoJob
    /\ resp' = NoResponse
    /\ UNCHANGED <<job, queueVars, spc, workerVars, poolVars, mainpc, crashed, files, now, envVars>>

GetJobStatus ==
    \/ \E j \in JobIds : GetJob(j)
    \/ GetJobStatusStatus
    \/ GetJobStatusProgress
    \/ GetJobStatusCompletedAt
    \/ GetJobStatusWriteJSON

\* ---- the Queue used directly, as by the callers of queue_test.go ----
\* Callers other than the pool's workers call the methods of one Queue at any
\* time and with contexts that may be cancelled at any time.  Enqueue is
\* SubmitJobEnqueue and EnqueueSend above; spc holds what it returned.

RECURSIVE SumCalls(_)
SumCalls(ops) ==
    IF ops = {} THEN 0
    ELSE LET op == CHOOSE o \in ops : TRUE IN ncalls[op] + SumCalls(ops \ {op})

\* the callers make at most MaxCalls calls in all
MayCall == SumCalls(QueueOps) < MaxCalls

Counted(op) == ncalls' = [ncalls EXCEPT ![op] = @ + 1]

\* what a call of a Queue method by such a caller leaves alone
CallerFrame == UNCHANGED <<job, synthLog, werr, wnow, poolVars, mainpc, files, now, readerVars,
                           bufferSize, syncpc, storeVars>>

\* mutant of EnqueueCanceled: the job is sent although the call reports the
\* cancellation
EnqueueCanceledSends(j) ==
    /\ ~crashed
    /\ spc[j] = "sending"
    /\ spc' = [spc EXCEPT ![j] = "canceled"]
    /\ pending' = Append(pending, j)
    /\ UNCHANGED <<jobs, closed, wpc, wjob, claimCount, crashed, call, ncalls>>
    /\ CallerFrame

\* Queue.Enqueue: case <-ctx.Done(): return ctx.Err().  The job stays in
\* q.jobs, where Enqueue put it before the select.
EnqueueCanceled(j) ==
    /\ ~crashed
    /\ spc[j] = "sending"
    /\ spc' = [spc EXCEPT ![j] = "canceled"]
    /\ UNCHANGED <<queueVars, wpc, wjob, claimCount, crashed, call, ncalls>>
    /\ CallerFrame

\* a caller enters Queue.Dequeue(ctx)
DequeueCall(w) ==
    /\ ~crashed
    /\ MayCall
    /\ wpc[w] = "idle"
    /\ wpc' = [wpc EXCEPT ![w] = "dequeue"]
    /\ Counted("Dequeue")
    /\ UNCHANGED <<queueVars, spc, wjob, claimCount, crashed, call>>
    /\ CallerFrame

\* Queue.Dequeue: case job, ok := <-q.pending with ok: return job, nil
DequeueReturnJob(w) ==
    /\ ~crashed
    /\ wpc[w] = "dequeue"
    /\ pending # <<>>
    /\ Dequeue(w)
    /\ call' = [op |-> "Dequeue", id |-> Head(pending), result |-> "nil"]
    /\ wpc' = [wpc EXCEPT ![w] = "idle"]
    /\ UNCHANGED <<jobs, closed, spc, crashed, ncalls>>
    /\ CallerFrame

\* mutant of DequeueEmpty: returning without a job takes one from the channel
DequeueEmptyDrops(w, result) ==
    /\ pending' = IF pending = <<>> THEN pending ELSE Tail(pending)
    /\ wjob' = [wjob EXCEPT ![w] = NoJob]
    /\ call' = [op |-> "Dequeue", id |-> NoJob, result |-> result]

\* Queue.Dequeue returns no job: nothing is received from the channel
DequeueEmpty(w, result) ==
    /\ pending' = pending
    /\ wjob' = [wjob EXCEPT ![w] = NoJob]
    /\ call' = [op |-> "Dequeue", id |-> NoJob, result |-> result]

\* mutant of DequeueClosedReady: the receive from a closed channel is taken
\* while jobs are still buffered
DequeueClosedAnyTime == closed

\* the receive from q.pending yields ok = false: the channel is closed and
\* its buffer is empty
DequeueClosedReady == closed /\ pending = <<>>

\* Queue.Dequeue: case job, ok := <-q.pending with !ok: return nil, nil
DequeueReturnClosed(w) ==
    /\ ~crashed
    /\ wpc[w] = "dequeue"
    /\ DequeueClosedReady
    /\ DequeueEmpty(w, "nil")
    /\ wpc' = [wpc EXCEPT ![w] = "idle"]
    /\ UNCHANGED <<jobs, closed, spc, claimCount, crashed, ncalls>>
    /\ CallerFrame

\* Queue.Dequeue: case <-ctx.Done(): return nil, ctx.Err()
DequeueReturnCanceled(w) ==
    /\ ~crashed
    /\ wpc[w] = "dequeue"
    /\ DequeueEmpty(w, ErrContextCanceled)
    /\ wpc' = [wpc EXCEPT ![w] = "idle"]
    /\ UNCHANGED <<jobs, closed, spc, claimCount, crashed, ncalls>>
    /\ CallerFrame

\* Queue.GetJob: the error it returns for an id
GetJobErr(j) == IF j \in jobs THEN "nil" ELSE ErrJobNotFound

\* mutant of UpdateJob: the record is stored whether or not the id is known
UpdateJobUpsert(j) ==
    /\ jobs' = jobs \cup {j}
    /\ call' = [op |-> "UpdateJob", id |-> j, result |-> "nil"]

\* Queue.UpdateJob: ErrJobNotFound for an unknown id, otherwise
\* q.jobs[job.ID] = job with the pointer that is already there
UpdateJob(j) ==
    /\ jobs' = jobs
    /\ call' = [op |-> "UpdateJob", id |-> j, result |-> GetJobErr(j)]

\* a caller holding a *domain.Job (enqueued or not) calls Queue.UpdateJob
UpdateJobCall(j) ==
    /\ ~crashed
    /\ MayCall
    /\ UpdateJob(j)
    /\ Counted("UpdateJob")
    /\ UNCHANGED <<pending, closed, spc, wpc, wjob, claimCount, crashed>>
    /\ CallerFrame

\* a caller calls Queue.DeleteJob
DeleteJobCall(j) ==
    /\ ~crashed
    /\ MayCall
    /\ DeleteJob(j)
    /\ Counted("DeleteJob")
    /\ UNCHANGED <<pending, closed, spc, wpc, wjob, claimCount, crashed>>
    /\ CallerFrame

\* a caller calls Queue.Close
CloseCall ==
    /\ ~crashed
    /\ MayCall
    /\ QueueClose
    /\ call' = [op |-> "Close", id |-> NoJob, result |-> "nil"]
    /\ Counted("Close")
    /\ UNCHANGED <<jobs, pending, spc, wpc, wjob, claimCount, crashed>>
    /\ CallerFrame

\* ---- TTSHandler.SynthesizeTTS and the provider ----

\* Provider.activeJobs: Synthesize adds 1 on entry and takes it off on
\* return, whoever the caller is
ActiveJobs ==
    Cardinality({w \in Workers : wpc[w] = "Synthesize.wait"})
        + Cardinality({r \in SyncRequests : syncpc[r] = "Synthesize"})

\* what a POST /api/v1/tts request leaves alone
SyncFrame == UNCHANGED <<job, queueVars, spc, workerVars, poolVars, mainpc, crashed, files, now,
                         readerVars, bufferSize, call, ncalls, storeVars>>

\* SynthesizeTTS: if !h.provider.IsAvailable(ctx) { WriteError(
\* ErrProviderUnavailable); return }.  IsAvailable is Client.CheckHealth, a
\* request to the remote service that succeeds or not
SynthesizeTTSIsAvailable(r) ==
    /\ ~crashed
    /\ mainpc = "serving"
    /\ syncpc[r] = "idle"
    /\ \E available \in BOOLEAN :
          syncpc' = [syncpc EXCEPT ![r] = IF available THEN "available" ELSE "unavailable"]
    /\ SyncFrame

\* SynthesizeTTS: result, err := h.provider.Synthesize(ctx, synthReq) is
\* entered, on the provider main also gave to NewWorker
SynthesizeTTSCall(r) ==
    /\ ~crashed
    /\ syncpc[r] = "available"
    /\ syncpc' = [syncpc EXCEPT ![r] = "Synthesize"]
    /\ SyncFrame

\* SynthesizeTTS: Synthesize returns and the response is written
SynthesizeTTSReturn(r) ==
    /\ ~crashed
    /\ syncpc[r] = "Synthesize"
    /\ syncpc' = [syncpc EXCEPT ![r] = "done"]
    /\ SyncFrame

\* ---- time and the cleanup scheduler ----

Tick ==
    /\ ~crashed
    /\ now < MaxTime
    /\ now' = now + 1
    /\ UNCHANGED <<job, queueVars, spc, workerVars, poolVars, mainpc, crashed, files, readerVars, envVars>>

\* Storage.CleanupExpired(ctx, retentionHours) at clock value t: every file
\* with info.ModTime().Before(cutoff) is removed
CleanupExpiredFiles(t, retentionHours) ==
    [j \in JobIds |-> IF files[j] # NoTime /\ files[j] < t - retentionHours
                      THEN NoTime ELSE files[j]]

\* mutant of CleanupExpired: the sweep also drops the registry records of
\* the jobs that have expired
CleanupExpiredPurges ==
    /\ ~crashed
    /\ started
    /\ ~ctxDone
    /\ files' = CleanupExpiredFiles(now, RetentionHours)
    /\ jobs' = {j \in jobs : ~IsExpired(j, now)}
    /\ UNCHANGED <<job, pending, closed, spc, workerVars, poolVars, mainpc, crashed, now, readerVars, envVars>>

\* Storage.StartCleanupScheduler: case <-ticker.C, until ctx is done; main
\* passes cfg.Storage.JobRetentionHours, as it does to NewWorker
CleanupExpired ==
    /\ ~crashed
    /\ started
    /\ ~ctxDone
    /\ files' = CleanupExpiredFiles(now, RetentionHours)
    /\ UNCHANGED <<job, queueVars, spc, workerVars, poolVars, mainpc, crashed, now, readerVars, envVars>>

\* ---- filesystem.Storage used directly, as by storage_test.go ----
\* Callers store, delete and sweep files of any id and either format, with any
\* content; disk holds the storage directory.

\* the contents callers store
Bytes == {"x", "y"}

ErrAudioNotFound == "audio file not found"

\* the files in the storage directory
StoredKeys == {k \in StoreKeys : disk[k] # NoFile}

\* Retrieve, Exists, GetPath: for _, format := range []string{"mp3", "wav"},
\* the first format of which a file is there (0 when none is)
FirstFormat(id) ==
    IF \E i \in 1..Len(Formats) : <<id, Formats[i]>> \in StoredKeys
    THEN CHOOSE i \in 1..Len(Formats) :
            /\ <<id, Formats[i]>> \in StoredKeys
            /\ \A h \in 1..(i - 1) : <<id, Formats[h]>> \notin StoredKeys
    ELSE 0

\* Retrieve: contentType := "audio/mpeg"; if format == "wav" { "audio/wav" }
ContentType(format) == IF format = "wav" THEN "audio/wav" ELSE "audio/mpeg"

\* Storage.Retrieve: the file of the first format that opens and its content
\* type, or the error
Retrieve(id) ==
    IF FirstFormat(id) = 0
    THEN [bytes |-> "", contentType |-> "", err |-> ErrAudioNotFound]
    ELSE [bytes |-> disk[<<id, Formats[FirstFormat(id)]>>].bytes,
          contentType |-> ContentType(Formats[FirstFormat(id)]),
          err |-> ""]

\* Storage.Exists
Exists(id) == FirstFormat(id) # 0

\* Storage.GetPath: the path of the first format of which a file is there
GetPath(id) == IF FirstFormat(id) = 0 THEN <<>> ELSE <<id, Formats[FirstFormat(id)]>>

\* what a call of a Storage method by such a caller leaves alone
StorageFrame == UNCHANGED <<job, queueVars, spc, workerVars, poolVars, mainpc, crashed, files, now,
                            readerVars, bufferSize, ncalls, syncpc, respc, res, inside>>

\* the directory of the callers holds at most MaxFiles files
MayStore(key) == key \in StoredKeys \/ Cardinality(StoredKeys) < MaxFiles

\* Storage.Store: os.WriteFile(<id>.<format>, audio) creates or replaces the
\* file, whose last-modified time becomes the time of the write; the path is
\* returned
StorageStore(id, bytes, format) ==
    /\ ~crashed
    /\ MayStore(<<id, format>>)
    /\ disk' = [disk EXCEPT ![<<id, format>>] = [bytes |-> bytes, modTime |-> now]]
    /\ call' = [op |-> "Store", id |-> id, result |-> <<id, format>>, bytes |-> bytes]
    /\ StorageFrame

\* mutant of StorageDelete: only the first format found is removed
StorageDeleteFirst(id) ==
    /\ ~crashed
    /\ disk' = [k \in StoreKeys |-> IF k = GetPath(id) THEN NoFile ELSE disk[k]]
    /\ call' = [op |-> "Delete", id |-> id, result |-> "nil"]
    /\ StorageFrame

\* Storage.Delete: os.Remove of <id>.mp3 and <id>.wav, errors ignored;
\* return nil
StorageDelete(id) ==
    /\ ~crashed
    /\ disk' = [k \in StoreKeys |-> IF k[1] = id THEN NoFile ELSE disk[k]]
    /\ call' = [op |-> "Delete", id |-> id, result |-> "nil"]
    /\ StorageFrame

\* CleanupExpired: info.ModTime().Before(cutoff), where cutoff is
\* time.Now() less retentionHours
Expired(k, retentionHours) ==
    k \in StoredKeys /\ disk[k].modTime < now - retentionHours

\* mutant of StorageCleanupExpired: a file modified at the cutoff is removed
\* as well
StorageCleanupExpiredAtCutoff(retentionHours) ==
    /\ ~crashed
    /\ LET stale == {k \in StoredKeys : disk[k].modTime <= now - retentionHours} IN
          /\ disk' = [k \in StoreKeys |-> IF k \in stale THEN NoFile ELSE disk[k]]
          /\ call' = [op |-> "CleanupExpired", id |-> NoJob, result |-> Cardinality(stale),
                      retentionHours |-> retentionHours]
    /\ StorageFrame

\* Storage.CleanupExpired: every file with ModTime before the cutoff is
\* removed and counted; the count is returned
StorageCleanupExpired(retentionHours) ==
    /\ ~crashed
    /\ LET stale == {k \in StoreKeys : Expired(k, retentionHours)} IN
          /\ disk' = [k \in StoreKeys |-> IF k \in stale THEN NoFile ELSE disk[k]]
          /\ call' = [op |-> "CleanupExpired", id |-> NoJob, result |-> Cardinality(stale),
                      retentionHours |-> retentionHours]
    /\ StorageFrame

\* ---- filesystem.Storage and its lock s.mu ----
\* Goroutines call the methods at the same time; each method body runs
\* between taking and releasing s.mu, and writes the directory file by file.

WriteOps == {"Store", "Delete", "CleanupExpired"}
ReadOps == {"Retrieve", "Exists"}

\* s.mu.Lock() returns: nobody holds the lock in either mode
MayLock == \A c \in StorageCallers : inside[c] = Outside

\* s.mu.RLock() returns: nobody holds the write lock
MayRLock == \A c \in StorageCallers : inside[c].op \notin WriteOps

\* what a step inside the Storage leaves alone
LockFrame == UNCHANGED <<job, queueVars, spc, workerVars, poolVars, mainpc, crashed, files, now,
                         readerVars, bufferSize, call, ncalls, syncpc, respc, res>>

\* os.WriteFile has opened <id>.<format> with O_CREATE|O_TRUNC and has not
\* written the audio yet
HalfWritten(k) == disk[k].modTime # NoTime /\ disk[k].bytes = ""

\* Storage.Store: s.mu.Lock(); os.WriteFile creates or truncates the file
LockedStoreOpen(c, id, bytes, format) ==
    /\ ~crashed
    /\ inside[c] = Outside
    /\ MayLock
    /\ MayStore(<<id, format>>)
    /\ inside' = [inside EXCEPT ![c] = [op |-> "Store", key |-> <<id, format>>, bytes |-> bytes]]
    /\ disk' = [disk EXCEPT ![<<id, format>>] = [bytes |-> "", modTime |-> now]]
    /\ LockFrame

\* Storage.Store: os.WriteFile writes the audio and closes; the deferred
\* s.mu.Unlock() runs
LockedStoreWrite(c) ==
    /\ ~crashed
    /\ inside[c].op = "Store"
    /\ disk' = [disk EXCEPT ![inside[c].key] = [bytes |-> inside[c].bytes, modTime |-> now]]
    /\ inside' = [inside EXCEPT ![c] = Outside]
    /\ LockFrame

\* Storage.Delete: s.mu.Lock(); os.Remove of <id>.mp3
LockedDeleteFirst(c, id) ==
    /\ ~crashed
    /\ inside[c] = Outside
    /\ MayLock
    /\ inside' = [inside EXCEPT ![c] = [op |-> "Delete", id |-> id]]
    /\ disk' = [disk EXCEPT ![<<id, Formats[1]>>] = NoFile]
    /\ LockFrame

\* Storage.Delete: os.Remove of <id>.wav; return nil and unlock
LockedDeleteSecond(c) ==
    /\ ~crashed
    /\ inside[c].op = "Delete"
    /\ disk' = [disk EXCEPT ![<<inside[c].id, Formats[2]>>] = NoFile]
    /\ inside' = [inside EXCEPT ![c] = Outside]
    /\ LockFrame

\* mutant of LockedCleanupReadDir: the sweep does not take the lock
LockedCleanupReadDirUnlocked(c) ==
    /\ ~crashed
    /\ inside[c] = Outside
    /\ inside' = [inside EXCEPT ![c] = [op |-> "CleanupExpired", cutoff |-> now - RetentionHours,
                                           entries |-> StoredKeys]]
    /\ disk' = disk
    /\ LockFrame

\* Storage.CleanupExpired: s.mu.Lock(); cutoff := time.Now().Add(-retention);
\* entries, err := os.ReadDir(basePath)
LockedCleanupReadDir(c) ==
    /\ ~crashed
    /\ inside[c] = Outside
    /\ MayLock
    /\ inside' = [inside EXCEPT ![c] = [op |-> "CleanupExpired", cutoff |-> now - RetentionHours,
                                           entries |-> StoredKeys]]
    /\ disk' = disk
    /\ LockFrame

\* Storage.CleanupExpired: the loop over the entries removes those modified
\* before the cutoff; return and unlock
LockedCleanupRemove(c) ==
    /\ ~crashed
    /\ inside[c].op = "CleanupExpired"
    /\ disk' = [k \in StoreKeys |->
                  IF k \in inside[c].entries /\ disk[k].modTime < inside[c].cutoff
                  THEN NoFile ELSE disk[k]]
    /\ inside' = [inside EXCEPT ![c] = Outside]
    /\ LockFrame

\* Storage.Retrieve, Storage.Exists: s.mu.RLock(); the files are opened or
\* looked up
LockedRead(c, op, id) ==
    /\ ~crashed
    /\ inside[c] = Outside
    /\ MayRLock
    /\ inside' = [inside EXCEPT ![c] = [op |-> op, id |-> id]]
    /\ disk' = disk
    /\ LockFrame

\* Storage.Retrieve, Storage.Exists: return; the deferred s.mu.RUnlock() runs
LockedReadReturn(c) ==
    /\ ~crashed
    /\ inside[c].op \in ReadOps
    /\ inside' = [inside EXCEPT ![c] = Outside]
    /\ disk' = disk
    /\ LockFrame

\* ---- GET /api/v1/jobs/{jobID}/result ----

ErrJobNotComplete == "JOB_NOT_COMPLETE"
ErrResultExpired == "RESULT_EXPIRED"
AudioStream == "200 audio"

\* what a step of GetJobResult leaves alone
ResultFrame == UNCHANGED <<job, queueVars, spc, workerVars, poolVars, mainpc, crashed, files, now,
                           readerVars, bufferSize, call, ncalls, syncpc, disk, inside>>

\* the handler writes its response and returns
GetJobResultWrite(outcome, retrieved) ==
    /\ res' = [res EXCEPT !.outcome = outcome, !.retrieved = retrieved]
    /\ respc' = "idle"

\* GetJobResult: job, err := h.queue.GetJob(ctx, jobID), for any id a client
\* may send
GetJobResultGetJob(j) ==
    /\ ~crashed
    /\ mainpc = "serving"
    /\ respc = "idle"
    /\ IF j \in jobs
       THEN /\ res' = [id |-> j, outcome |-> "", retrieved |-> FALSE]
            /\ respc' = "Status"
       ELSE /\ res' = [id |-> j, outcome |-> ErrJobNotFound, retrieved |-> FALSE]
            /\ respc' = "idle"
    /\ ResultFrame

\* if job.Status != domain.JobStatusCompleted { WriteError(ErrJobNotComplete) }
GetJobResultStatus ==
    /\ ~crashed
    /\ respc = "Status"
    /\ IF Status(res.id) # JobStatusCompleted
       THEN GetJobResultWrite(ErrJobNotComplete, FALSE)
       ELSE /\ respc' = "IsExpired"
            /\ res' = res
    /\ ResultFrame

\* mutant of GetJobResultIsExpired: the storage is asked whatever ExpiresAt is
GetJobResultIsExpiredSkipped ==
    /\ ~crashed
    /\ respc = "IsExpired"
    /\ respc' = "Retrieve"
    /\ res' = res
    /\ ResultFrame

\* if job.IsExpired() { WriteError(ErrResultExpired) }
GetJobResultIsExpired ==
    /\ ~crashed
    /\ respc = "IsExpired"
    /\ IF IsExpired(res.id, now)
       THEN GetJobResultWrite(ErrResultExpired, FALSE)
       ELSE /\ respc' = "Retrieve"
            /\ res' = res
    /\ ResultFrame

\* reader, contentType, err := h.storage.Retrieve(ctx, jobID); an error is
\* answered with ErrResultExpired, a reader is streamed
GetJobResultRetrieve ==
    /\ ~crashed
    /\ respc = "Retrieve"
    /\ GetJobResultWrite(IF RetrieveOK(res.id) THEN AudioStream ELSE ErrResultExpired, TRUE)
    /\ ResultFrame

GetJobResult ==
    \/ \E j \in JobIds : GetJobResultGetJob(j)
    \/ GetJobResultStatus
    \/ GetJobResultIsExpired
    \/ GetJobResultRetrieve

Next ==
    \/ WorkerStart
    \/ \E j \in JobIds : SubmitJobEnqueue(j)
    \/ \E j \in JobIds : EnqueueSend(j)
    \/ \E w \in Workers : RunSelect(w)
    \/ \E w \in Workers : DequeueJob(w)
    \/ \E w \in Workers : DequeueCanceled(w)
    \/ \E w \in Workers : ProcessJob(w)
    \/ MainShutdown
    \/ WorkerStopCancel
    \/ WorkerStopWait
    \/ MainClose

Spec == Init /\ [][Next]_vars

\* one worker, one job, and a client polling GET /api/v1/jobs/{jobID}
InitOne ==
    /\ InitCommon
    /\ spc = [j \in JobIds |-> IF j = 1 THEN "new" ELSE "unused"]
    /\ numWorkers = 1
    /\ bufferSize = QueueCap

NextRead == Next \/ GetJobStatus

SpecRead == InitOne /\ [][NextRead]_vars

\* one worker, one job, the clock and the cleanup scheduler
NextStore == Next \/ Tick \/ CleanupExpired

SpecStore == InitOne /\ [][NextStore]_vars

\* one worker, one job, the clock, the cleanup scheduler and a client asking
\* for results
NextResult == NextStore \/ GetJobResult

SpecResult == InitOne /\ [][NextResult]_vars

\* the Storage on its own: callers of its methods and the clock
NextStorage ==
    \/ \E id \in JobIds : \E bytes \in Bytes : \E i \in 1..Len(Formats) :
          StorageStore(id, bytes, Formats[i])
    \/ \E id \in JobIds : StorageDelete(id)
    \/ \E retentionHours \in 0..RetentionHours : StorageCleanupExpired(retentionHours)
    \/ Tick

SpecStorage == InitOne /\ [][NextStorage]_vars

\* the service with its pool and clients of POST /api/v1/tts
NextSync ==
    \/ Next
    \/ \E r \in SyncRequests : SynthesizeTTSIsAvailable(r)
    \/ \E r \in SyncRequests : SynthesizeTTSCall(r)
    \/ \E r \in SyncRequests : SynthesizeTTSReturn(r)

SpecSync == Init /\ [][NextSync]_vars

\* the service with a single worker and a buffer that takes every job
InitFifo ==
    /\ InitCommon
    /\ spc = [j \in JobIds |-> "new"]
    /\ numWorkers = 1
    /\ bufferSize = NumJobs

SpecFifo == InitFifo /\ [][Next]_vars

\* the service with clients whose requests carry any of the texts
NextSubmit ==
    \/ WorkerStart
    \/ \E j \in JobIds : \E text \in Texts : SubmitJob(j, text)
    \/ \E j \in JobIds : EnqueueSend(j)
    \/ \E w \in Workers : RunSelect(w)
    \/ \E w \in Workers : DequeueJob(w)
    \/ \E w \in Workers : DequeueCanceled(w)
    \/ \E w \in Workers : ProcessJob(w)
    \/ MainShutdown
    \/ WorkerStopCancel
    \/ WorkerStopWait
    \/ MainClose

SpecSubmit == InitFifo /\ [][NextSubmit]_vars

\* the Queue on its own: no pool, callers of its methods only
InitQueue ==
    /\ InitObjects
    /\ mainpc = "serving"
    /\ spc = [j \in JobIds |-> "new"]
    /\ numWorkers = 0
    /\ bufferSize = QueueCap

NextQueue ==
    \/ \E j \in JobIds : SubmitJobEnqueue(j)
    \/ \E j \in JobIds : EnqueueSend(j)
    \/ \E j \in JobIds : EnqueueCanceled(j)
    \/ \E w \in Workers : DequeueCall(w)
    \/ \E w \in Workers : DequeueReturnJob(w)
    \/ \E w \in Workers : DequeueReturnClosed(w)
    \/ \E w \in Workers : DequeueReturnCanceled(w)
    \/ \E j \in JobIds : UpdateJobCall(j)
    \/ \E j \in JobIds : DeleteJobCall(j)
    \/ CloseCall

SpecQueue == InitQueue /\ [][NextQueue]_vars

\* a goroutine blocked in the select of Dequeue is woken when a job is sent
\* and when the channel is closed (close wakes every receiver), and then runs
FairDequeue == \A w \in Workers : WF_vars(DequeueReturnJob(w) \/ DequeueReturnClosed(w))

SpecQueueFair == SpecQueue /\ FairDequeue

\* Queue.Stats: the number of jobs of q.jobs whose Status reads "queued"
StatsQueuedJobs ==
    Cardinality({j \in jobs : job[j].StatusPtr = JobStatusQueued
                                /\ job[j].StatusLen = JobStatusQueued})

\* Queue.ListJobs(status), under q.mu.RLock: the jobs of q.jobs whose Status
\* reads as status.  The lock keeps writers of the map out, not the workers,
\* which write the Status of the jobs they hold without it
ListJobs(status) == {j \in jobs : Status(j) = status}

\* Queue.Stats, under q.mu.RLock: TotalJobs counts every job of q.jobs, and
\* the switch on job.Status counts it under the status it reads, if any
Stats ==
    [TotalJobs |-> Cardinality(jobs),
     QueuedJobs |-> Cardinality({j \in jobs : Status(j) = JobStatusQueued}),
     ProcessingJobs |-> Cardinality({j \in jobs : Status(j) = JobStatusProcessing}),
     CompletedJobs |-> Cardinality({j \in jobs : Status(j) = JobStatusCompleted}),
     FailedJobs |-> Cardinality({j \in jobs : Status(j) = JobStatusFailed})]

\* the service while it serves: main never receives a signal, clients submit
\* and may go away while their request waits in Enqueue
NextLive ==
    \/ WorkerStart
    \/ \E j \in JobIds : SubmitJobEnqueue(j)
    \/ \E j \in JobIds : EnqueueSend(j)
    \/ \E j \in JobIds : EnqueueCanceled(j)
    \/ \E w \in Workers : RunSelect(w)
    \/ \E w \in Workers : DequeueJob(w)
    \/ \E w \in Workers : ProcessJob(w)

\* what the goroutines of the service do on their own: main's call of
\* worker.Start, the steps of the workers, and the send of a request blocked
\* in Enqueue
LiveSteps ==
    \/ WorkerStart
    \/ \E j \in JobIds : EnqueueSend(j)
    \/ \E w \in Workers : RunSelect(w) \/ DequeueJob(w) \/ ProcessJob(w)

\* the scheduler runs a goroutine that can run, and the calls into the
\* provider and the storage return: the service does not stop while one of
\* its goroutines has a step to take
FairLive == WF_vars(LiveSteps)

\* the service with a single worker
InitLive ==
    /\ InitCommon
    /\ spc = [j \in JobIds |-> "new"]
    /\ numWorkers = 1
    /\ bufferSize = QueueCap

SpecLive == InitLive /\ [][NextLive]_vars /\ FairLive

\* the service while it serves one job, with the clock, the cleanup
\* scheduler and a caller of Queue.DeleteJob
NextRegistry ==
    \/ NextLive
    \/ Tick
    \/ CleanupExpired
    \/ \E j \in JobIds : DeleteJobCall(j)

SpecRegistry == InitOne /\ [][NextRegistry]_vars

\* the service while it serves, with a caller of Queue.DeleteJob
NextDelete ==
    \/ NextLive
    \/ \E j \in JobIds : DeleteJobCall(j)

SpecDelete == InitLive /\ [][NextDelete]_vars

\* the Storage with goroutines calling its methods at the same time
NextLocked ==
    \/ \E c \in StorageCallers : \E id \in JobIds : \E i \in 1..Len(Formats) :
          LockedStoreOpen(c, id, "x", Formats[i])
    \/ \E c \in StorageCallers : LockedStoreWrite(c)
    \/ \E c \in StorageCallers : \E id \in JobIds : LockedDeleteFirst(c, id)
    \/ \E c \in StorageCallers : LockedDeleteSecond(c)
    \/ \E c \in StorageCallers : LockedCleanupReadDir(c)
    \/ \E c \in StorageCallers : LockedCleanupRemove(c)
    \/ \E c \in StorageCallers : \E op \in ReadOps : LockedRead(c, op, 1)
    \/ \E c \in StorageCallers : LockedReadReturn(c)
    \/ Tick

SpecLocked == InitOne /\ [][NextLocked]_vars

\* ======================= claims =======================

SynthesizeErrors == {ErrSynthesis, ErrContextCanceled}

\* no worker is inside processJob with job j
AtRest(j) == \A w \in Workers : wjob[w] # j

StopReturned == mainpc \in {"close", "done"}

\* C1: the statuses a client receives for one job by successive GetJobStatus
\* requests are each one of the four statuses and follow
\* queued -> processing -> (completed | failed): never out of that order,
\* and nothing else after completed or failed.
StatusRank(s) ==
    CASE s = JobStatusQueued -> 0
      [] s = JobStatusProcessing -> 1
      [] OTHER -> 2

StatusFollows(prev, cur) ==
    /\ StatusRank(prev) <= StatusRank(cur)
    /\ prev \in {JobStatusCompleted, JobStatusFailed} => cur = prev

C1_ObservedStatusOrder ==
    \A j \in JobIds :
        /\ seen[j][2] # "" => seen[j][2] \in Statuses
        /\ (seen[j][1] # "" /\ seen[j][2] # "") => StatusFollows(seen[j][1], seen[j][2])

\* C2: a GetJobStatus response that reports status completed reports the
\* fields of the completed record with it (progress 100 and completed_at):
\* a reader never sees SetCompleted half applied.
C2_ReadSeesWholeUpdate ==
    (rpc = "WriteJSON" /\ resp.status = JobStatusCompleted)
        => (resp.progress = 100 /\ resp.completedAt # NoTime)

\* C3: Dequeue returns every job to at most one worker, so no job is in the
\* pipeline of two workers, and a job a worker holds is no longer in the
\* dispatch queue.
C3_ClaimedByOneWorker ==
    /\ \A j \in JobIds : claimCount[j] <= 1
    /\ \A w1, w2 \in Workers : (w1 # w2 /\ wjob[w1] # NoJob) => wjob[w1] # wjob[w2]
    /\ \A w \in Workers : \A i \in 1..Len(pending) : pending[i] # wjob[w]

\* C3 witness: two workers were in Dequeue for one queued job; one of them
\* holds it and the other is still blocked on the empty queue.
C3_Witness ==
    \E w1, w2 \in Workers :
        /\ w1 # w2
        /\ wjob[w1] # NoJob
        /\ claimCount[wjob[w1]] = 1
        /\ wpc[w2] = "dequeue"
        /\ pending = <<>>

\* C4 as stated: a job that failed with the provider's error message has
\* progress 70.
C4_FailedAtProgress70 ==
    \A j \in JobIds :
        (Status(j) = JobStatusFailed /\ job[j].ErrorMessage = ErrSynthesis)
            => job[j].ProgressPercentage = 70

\* C4 amended: once Synthesize has failed for a job with message M, the
\* progress stays at 30 throughout the failure transition, and when the
\* worker has left the job its status is failed, its error description is
\* exactly M and its progress is 30.
C4_FailedAtProgress30 ==
    \A j \in JobIds :
        (synthLog[j] # <<>> /\ synthLog[j][1] \in SynthesizeErrors) =>
            /\ job[j].ProgressPercentage = 30
            /\ AtRest(j) => /\ Status(j) = JobStatusFailed
                            /\ job[j].ErrorMessage = synthLog[j][1]

\* C4 witness: a job the provider rejected has ended as failed.
C4_Witness ==
    \E j \in JobIds :
        /\ synthLog[j] = <<ErrSynthesis>>
        /\ AtRest(j)
        /\ Status(j) = JobStatusFailed
        /\ job[j].ProgressPercentage = 30

\* C5: every registry record with status completed has progress 100 and a
\* result location, and every one with status failed has an error
\* description and no result location.
C5_TerminalRecordFields ==
    \A j \in jobs :
        /\ Status(j) = JobStatusCompleted =>
               (job[j].ProgressPercentage = 100 /\ job[j].ResultPath # "")
        /\ Status(j) = JobStatusFailed =>
               (job[j].ErrorMessage # "" /\ job[j].ResultPath = "")

\* C6: a registry record has expires_at exactly when its status is
\* completed, and then expires_at = completed_at + the retention window.
C6_ExpiresAtIffCompleted ==
    \A j \in jobs :
        /\ (job[j].ExpiresAt # NoTime) <=> (Status(j) = JobStatusCompleted)
        /\ Status(j) = JobStatusCompleted =>
               job[j].ExpiresAt = job[j].CompletedAt + RetentionHours

\* C7: with one retention window for the workers and the sweep, the audio of
\* a completed job that Job.IsExpired does not report expired is still in
\* the store (Retrieve succeeds).  Only jobs the worker has finished count.
C7_SweepKeepsUnexpiredAudio ==
    \A j \in jobs :
        (/\ AtRest(j)
         /\ Status(j) = JobStatusCompleted
         /\ job[j].ExpiresAt # NoTime
         /\ ~IsExpired(j, now)) => RetrieveOK(j)

\* C8: the stop signal never makes an in-flight job fail, and no job is left
\* in status processing when the shutdown sequence has finished.
C8_StopDoesNotAbortJob ==
    /\ \A j \in JobIds : job[j].ErrorMessage # ErrContextCanceled
    /\ mainpc = "done" => \A j \in jobs : Status(j) # JobStatusProcessing

\* C9: workers exit only on a closed and empty dispatch queue, so when the
\* shutdown sequence has finished the dispatch queue is empty and every job
\* admitted to it is completed or failed: none is left queued.
C9_ShutdownDrainsQueue ==
    mainpc = "done" =>
        /\ pending = <<>>
        /\ \A j \in jobs : spc[j] = "done" => Status(j) \in {JobStatusCompleted, JobStatusFailed}

\* C10: once Worker.Stop has returned every started worker has exited and
\* holds no job, no registry record is in status processing, and from then
\* on no step changes a job, the store or a worker.
C10_StopJoinsWorkers ==
    /\ [](StopReturned =>
            /\ \A w \in Workers : w <= numWorkers => (wpc[w] = "exited" /\ wjob[w] = NoJob)
            /\ \A j \in jobs : Status(j) # JobStatusProcessing)
    /\ [][StopReturned => UNCHANGED <<job, files, workerVars>>]_vars

\* C10 witness: Stop has returned after a worker finished the job it held
\* when the stop signal came.
C10_Witness ==
    /\ StopReturned
    /\ \E j \in jobs : synthLog[j] = <<ErrContextCanceled>> /\ Status(j) = JobStatusFailed

\* the job is in the channel's buffer
InPending(j) == \E i \in 1..Len(pending) : pending[i] = j

\* C11: a job whose Enqueue was refused because the queue was closed
\* (context.Canceled, spc "rejected") is not in the registry, so GetJob
\* answers ErrJobNotFound for it, and it is not in the dispatch queue and is
\* never handed to a Dequeue caller.
C11_EnqueueOnClosedChangesNothing ==
    \A j \in JobIds :
        spc[j] = "rejected" =>
            /\ closed
            /\ GetJobErr(j) = ErrJobNotFound
            /\ ~InPending(j)
            /\ claimCount[j] = 0

\* C11 witness: Enqueue was refused on a closed queue that still holds an
\* earlier job, and a later UpdateJob for the refused job has returned.
C11_Witness ==
    \E j \in JobIds :
        /\ spc[j] = "rejected"
        /\ jobs # {}
        /\ call = [op |-> "UpdateJob", id |-> j, result |-> ErrJobNotFound]

\* C12: a job whose Enqueue returned the caller's cancellation (spc
\* "canceled") was not sent: it is not in the dispatch queue and no Dequeue
\* caller has received it or receives it later.
C12_CanceledEnqueueNeverDelivered ==
    \A j \in JobIds :
        spc[j] = "canceled" =>
            /\ ~InPending(j)
            /\ claimCount[j] = 0
            /\ \A w \in Workers : wjob[w] # j

\* C12 witness: Enqueue was cancelled for a job while the buffer was full of
\* another job; that job has since been received by a Dequeue caller and a
\* second caller is blocked on the empty queue.
C12_Witness ==
    \E j \in JobIds : \E w1, w2 \in Workers :
        /\ spc[j] = "canceled"
        /\ bufferSize = 1
        /\ wjob[w1] # NoJob /\ wjob[w1] # j /\ wjob[w1] < j
        /\ call = [op |-> "Dequeue", id |-> wjob[w1], result |-> "nil"]
        /\ wpc[w2] = "dequeue"
        /\ pending = <<>>

\* C13: once Enqueue has returned nil for a job (spc "done"), GetJob finds
\* the job, the record has status queued for as long as no Dequeue has
\* returned it, and a GetJobStatus request that reads the status in that
\* time reads queued.
C13_VisibleAfterSubmit ==
    /\ [](\A j \in JobIds :
            spc[j] = "done" =>
                /\ GetJobErr(j) = "nil"
                /\ claimCount[j] = 0 => Status(j) = JobStatusQueued)
    /\ [][(rpc = "Status" /\ rpc' # rpc /\ spc[rjob] = "done" /\ claimCount[rjob] = 0)
             => resp'.status = JobStatusQueued]_vars

\* C13 witness: the client has received status queued for a job whose
\* submission succeeded and which is still waiting in the dispatch queue
\* while the worker is busy elsewhere or not yet receiving.
C13_Witness ==
    \E j \in JobIds :
        /\ spc[j] = "done"
        /\ claimCount[j] = 0
        /\ InPending(j)
        /\ seen[j][2] = JobStatusQueued

\* a Dequeue call of caller w returns in this step
DequeueReturns(w) == wpc[w] = "dequeue" /\ wpc'[w] = "idle"

\* C14: Dequeue returns the empty result without error only when the queue
\* is closed and its buffer is empty; a job leaves the buffer only by being
\* returned to a Dequeue caller, so the jobs buffered at Close are delivered
\* first; and a caller blocked in Dequeue on a closed queue returns (unless
\* the process has panicked).
C14_CloseUnblocksDequeue ==
    /\ [][\A w \in Workers :
            (DequeueReturns(w) /\ call'.id = NoJob /\ call'.result = "nil")
                => (closed /\ pending = <<>>)]_vars
    /\ [][Len(pending') < Len(pending) =>
            /\ pending' = Tail(pending)
            /\ call' = [op |-> "Dequeue", id |-> Head(pending), result |-> "nil"]
            /\ \E w \in Workers : DequeueReturns(w) /\ wjob'[w] = Head(pending)]_vars
    /\ \A w \in Workers : (closed /\ wpc[w] = "dequeue") ~> (wpc[w] = "idle" \/ crashed)

\* C14 witness: on a closed queue one caller holds the job that was buffered
\* at Close and another has just been given the empty result.
C14_Witness ==
    \E w1, w2 \in Workers :
        /\ w1 # w2
        /\ closed
        /\ wjob[w1] # NoJob /\ claimCount[wjob[w1]] = 1
        /\ wpc[w2] = "idle" /\ wjob[w2] = NoJob
        /\ call = [op |-> "Dequeue", id |-> NoJob, result |-> "nil"]
        /\ ncalls["Dequeue"] = 2 /\ ncalls["Close"] = 1

\* C15: a Dequeue that returns the caller's cancellation returns no job and
\* leaves the dispatch queue as it was; every admitted job is either still
\* in the dispatch queue or has been returned by Dequeue exactly once, so a
\* job that was there at the cancellation is there for a later Dequeue.
C15_CanceledDequeueTakesNothing ==
    /\ [][\A w \in Workers :
            (DequeueReturns(w) /\ call'.result = ErrContextCanceled) =>
                /\ call'.id = NoJob
                /\ wjob'[w] = NoJob
                /\ pending' = pending
                /\ claimCount' = claimCount]_vars
    /\ [](\A j \in JobIds :
            spc[j] = "done" => (InPending(j) <=> claimCount[j] = 0) /\ claimCount[j] <= 1)

\* C15 witness: a Dequeue has just returned the cancellation while a job was
\* waiting in the dispatch queue, and the job is still there.
C15_Witness ==
    /\ call = [op |-> "Dequeue", id |-> NoJob, result |-> ErrContextCanceled]
    /\ pending # <<>>
    /\ \A w \in Workers : wpc[w] = "idle" /\ wjob[w] = NoJob

\* a counted call of the Queue method op returns in this step
CallReturns(op) == ncalls'[op] = ncalls[op] + 1 /\ call'.op = op

\* C16: every call of Close returns nil and leaves the queue closed; a call
\* on a queue that is already closed changes neither the registry, nor the
\* records, nor the closed flag, nor the dispatch queue, and does not panic.
C16_CloseIdempotent ==
    [][CallReturns("Close") =>
          /\ call'.result = "nil"
          /\ closed'
          /\ closed => UNCHANGED <<job, jobs, pending, closed, crashed>>]_vars

\* C16 witness: Close has returned for the second time on a queue that
\* holds a job in its registry and in its buffer.
C16_Witness ==
    /\ ncalls["Close"] >= 2
    /\ call = [op |-> "Close", id |-> NoJob, result |-> "nil"]
    /\ closed
    /\ pending # <<>>
    /\ jobs # {}

\* C17: UpdateJob leaves the registry as it is and returns ErrJobNotFound
\* exactly when the id is not in it; an id enters the registry only by the
\* Enqueue of a new job, so a deleted job is never put back by an update.
C17_UpdateJobNeverCreates ==
    /\ [][CallReturns("UpdateJob") =>
            /\ jobs' = jobs
            /\ call'.result = IF call'.id \in jobs THEN "nil" ELSE ErrJobNotFound]_vars
    /\ [][\A j \in jobs' \ jobs : spc[j] = "new" /\ spc'[j] = "sending"]_vars

\* C17 witness: a caller received a job from Dequeue, the job was deleted,
\* and the caller's UpdateJob for it has returned ErrJobNotFound.
C17_Witness ==
    \E w \in Workers :
        /\ wjob[w] # NoJob
        /\ claimCount[wjob[w]] = 1
        /\ wjob[w] \notin jobs
        /\ ncalls["DeleteJob"] = 1
        /\ call = [op |-> "UpdateJob", id |-> wjob[w], result |-> ErrJobNotFound]

\* C18: DeleteJob returns nil for every id, present or not; when it has
\* returned the id is not in the registry (GetJob answers ErrJobNotFound)
\* and nothing else has changed; on an absent id it changes nothing at all,
\* so a second delete leaves what the first left.  GetJob also answers
\* ErrJobNotFound for an id that was never submitted.
C18_DeleteJobIdempotent ==
    /\ [][CallReturns("DeleteJob") =>
            /\ call'.result = "nil"
            /\ jobs' = jobs \ {call'.id}
            /\ call'.id \notin jobs'
            /\ UNCHANGED <<job, pending, closed, crashed>>
            /\ call'.id \notin jobs => jobs' = jobs]_vars
    /\ [](\A j \in JobIds : spc[j] = "new" => GetJobErr(j) = ErrJobNotFound)

\* C18 witness: DeleteJob has returned nil twice, at least once for an id
\* that was not in the registry, and the submitted job it was last called
\* for is gone.
C18_Witness ==
    \E j \in JobIds :
        /\ ncalls["DeleteJob"] = 2
        /\ call = [op |-> "DeleteJob", id |-> j, result |-> "nil"]
        /\ spc[j] = "done"
        /\ GetJobErr(j) = ErrJobNotFound

Terminal(j) == AtRest(j) /\ Status(j) \in {JobStatusCompleted, JobStatusFailed}

\* C19: the dispatch queue changes only by a successful Enqueue appending
\* its job at the end and by a worker receiving the job at the front, so
\* jobs are claimed in the order of their admission; and when the single
\* worker claims a job, every job claimed before it has reached completed
\* or failed.
C19_ClaimedInAdmissionOrder ==
    /\ [][pending' # pending =>
            \/ \E j \in JobIds :
                  /\ spc[j] = "sending" /\ spc'[j] = "done"
                  /\ pending' = Append(pending, j)
            \/ \E w \in Workers :
                  /\ wjob[w] = NoJob /\ wjob'[w] = Head(pending)
                  /\ pending' = Tail(pending)]_vars
    /\ [][\A w \in Workers :
            (wjob[w] = NoJob /\ wjob'[w] # NoJob) =>
                \A j \in JobIds : claimCount[j] > 0 => Terminal(j)]_vars

\* C19 witness: the job created second was admitted first; it has reached
\* its terminal status and the worker has then claimed the other job.
C19_Witness ==
    /\ Terminal(2)
    /\ wjob[1] = 1
    /\ claimCount[1] = 1 /\ claimCount[2] = 1

\* C20: the number of Provider.Synthesize calls in flight never exceeds the
\* number of workers Start was given, and a worker is inside processJob with
\* exactly one job or outside it with none.
C20_ProviderCallsBoundedByPool ==
    /\ ActiveJobs <= numWorkers
    /\ \A w \in Workers :
          (wpc[w] \in {"idle", "loop", "dequeue", "exited"}) <=> (wjob[w] = NoJob)

\* a worker is inside processJob with job j
Holds(w, j) == wjob[w] = j

\* C21: no retry and no requeue: every job is claimed at most once and
\* Provider.Synthesize returns at most once for it; a job that was claimed is
\* never in the dispatch queue again, and once the worker that held it has
\* left processJob no worker holds it again.
C21_NoRetryNoRequeue ==
    /\ [](\A j \in JobIds :
            /\ claimCount[j] <= 1
            /\ Len(synthLog[j]) <= 1
            /\ claimCount[j] > 0 => ~InPending(j))
    /\ [][\A j \in JobIds :
            (claimCount[j] > 0 /\ \A w \in Workers : ~Holds(w, j))
                => \A w \in Workers : ~Holds(w, j)']_vars

\* C21 witness: Synthesize failed for a job, the job is failed and at rest,
\* its worker is back in Dequeue on an empty queue, and the one call is all
\* the provider has seen of it.
C21_Witness ==
    \E j \in JobIds : \E w \in Workers :
        /\ synthLog[j] = <<ErrSynthesis>>
        /\ Terminal(j) /\ Status(j) = JobStatusFailed
        /\ claimCount[j] = 1
        /\ wpc[w] = "dequeue" /\ wjob[w] = NoJob
        /\ pending = <<>>
        /\ \A w2 \in Workers : ~Holds(w2, j)

\* the terminal status the outcomes of job k's own calls dictate: completed
\* when Synthesize succeeded and the audio was stored, failed otherwise
OwnOutcome(k) ==
    IF synthLog[k] = <<"">> /\ files[k] # NoTime /\ job[k].ErrorMessage = ""
    THEN JobStatusCompleted ELSE JobStatusFailed

\* C22: a worker that has recorded a job's failure returns to its loop, and
\* the process keeps running; while one job is failed every other job in the
\* dispatch queue is eventually claimed and reaches a terminal status; and
\* the terminal status of each job is the one its own Synthesize and Store
\* outcomes dictate.
C22_FailureIsolated ==
    /\ [][\A w \in Workers :
            (wpc[w] = "SetFailed.ErrorMessage" /\ wpc'[w] # wpc[w])
                => (wpc'[w] = "loop" /\ wjob'[w] = NoJob /\ ~crashed')]_vars
    /\ \A j, k \in JobIds :
            (j # k /\ Terminal(j) /\ Status(j) = JobStatusFailed /\ InPending(k))
                ~> Terminal(k)
    /\ [](\A k \in JobIds : Terminal(k) => Status(k) = OwnOutcome(k))

\* C22 witness: Synthesize failed for one job, which is failed and at rest,
\* and the single worker, which processed it, now holds the other job.
C22_Witness ==
    \E j, k \in JobIds : \E w \in Workers :
        /\ j # k
        /\ numWorkers = 1
        /\ Terminal(j) /\ Status(j) = JobStatusFailed
        /\ synthLog[j] = <<ErrSynthesis>>
        /\ Holds(w, k)

\* every POST /jobs request the clients make has returned
SubmissionsStopped == \A j \in JobIds : spc[j] \notin {"new", "sending"}

\* C23: while the service serves, every job sent to the dispatch queue
\* eventually reaches completed or failed; and once every submission has
\* returned, the QueuedJobs count of Stats never goes up and eventually is 0.
C23_QueueDrains ==
    /\ \A j \in JobIds : InPending(j) ~> Terminal(j)
    /\ [][SubmissionsStopped => StatsQueuedJobs' <= StatsQueuedJobs]_vars
    /\ SubmissionsStopped ~> (StatsQueuedJobs = 0)

\* the job's status is queued or processing, or is being written
InProgress(j) == Status(j) \notin {JobStatusCompleted, JobStatusFailed}

\* C24: a result request is answered with JOB_NOT_COMPLETE exactly when the
\* job is in the registry and the status the handler reads is queued or
\* processing (a status caught in the middle of a write counts as such); in
\* particular never for a failed job.
C24_NotCompleteIffInProgress ==
    [][res' # res =>
         ((res'.outcome = ErrJobNotComplete)
             <=> (respc = "Status" /\ res.id \in jobs /\ InProgress(res.id)))]_vars

\* the job reads completed and its ExpiresAt has passed
CompletedExpired(j) == Status(j) = JobStatusCompleted /\ IsExpired(j, now)

\* C25: a job that is completed and past its ExpiresAt stays so; a result
\* request that finds the job completed goes on to the expiry check, which
\* for such a job answers RESULT_EXPIRED without calling Storage.Retrieve,
\* whatever the storage holds; and when the expiry check passes and Retrieve
\* finds no file, the answer is RESULT_EXPIRED as well.
C25_ExpiryBeforeStore ==
    /\ [][\A j \in JobIds : CompletedExpired(j) => CompletedExpired(j)']_vars
    /\ [][(respc = "Status" /\ respc' # respc /\ Status(res.id) = JobStatusCompleted)
            => (respc' = "IsExpired" /\ res' = res)]_vars
    /\ [][(respc = "IsExpired" /\ respc' # respc /\ IsExpired(res.id, now))
            => (/\ respc' = "idle"
                /\ res'.outcome = ErrResultExpired
                /\ ~res'.retrieved)]_vars
    /\ [][(respc = "Retrieve" /\ respc' # respc /\ ~RetrieveOK(res.id))
            => (res'.outcome = ErrResultExpired /\ res'.retrieved)]_vars

\* C25 witness: the request for a completed job past its ExpiresAt was
\* answered RESULT_EXPIRED without a call of Retrieve, while the audio file is
\* still in the storage.
C25_Witness ==
    /\ respc = "idle"
    /\ res.id \in jobs
    /\ res.outcome = ErrResultExpired
    /\ ~res.retrieved
    /\ CompletedExpired(res.id)
    /\ RetrieveOK(res.id)

\* strings.TrimSpace(text) == "": every character is a blank
Blank(text) == \A i \in 1..Len(text) : text[i] = " "

\* C26: a submission whose text is empty or blank is rejected and leaves the
\* registry and the dispatch queue as they were, and no job in the registry
\* has an empty or blank text.
C26_NoBlankTextInRegistry ==
    /\ [][\A j \in JobIds :
            (spc[j] = "new" /\ spc'[j] = "invalid") => UNCHANGED <<jobs, pending>>]_vars
    /\ [](\A j \in jobs : ~Blank(job[j].Text))

\* C27: no request for a synthesis ends at the liveness probe: a request
\* whose IsAvailable call returned false still goes on to Synthesize.
C27_ProbeNeverGates ==
    \A r \in SyncRequests : syncpc[r] # "unavailable"

\* a call of the Storage method op has just returned
StorageReturns(op) == call'.op = op /\ (call' # call \/ disk' # disk)

\* C28: after Store(id, bytes, format) Retrieve(id) returns those bytes with
\* the content type of the format, audio/mpeg for mp3 and audio/wav for wav;
\* a second Store under the same id and format replaces the bytes of the
\* first.
C28_StoreRetrieveRoundTrip ==
    [][\A id \in JobIds : \A bytes \in Bytes : \A i \in 1..Len(Formats) :
         (/\ StorageReturns("Store")
          /\ call' = [op |-> "Store", id |-> id, result |-> <<id, Formats[i]>>,
                      bytes |-> bytes])
            => /\ disk'[<<id, Formats[i]>>].bytes = bytes
               /\ Retrieve(id)' = [bytes |-> bytes,
                                   contentType |-> ContentType(Formats[i]),
                                   err |-> ""]]_vars

C30_DeleteRemovesAllVariants ==
    [][\A id \in JobIds :
         (StorageReturns("Delete") /\ call'.id = id)
            => /\ call'.result = "nil"
               /\ \A i \in 1..Len(Formats) : disk'[<<id, Formats[i]>>] = NoFile
               /\ ~Exists(id)'
               /\ GetPath(id)' = <<>>
               /\ Retrieve(id)'.err = ErrAudioNotFound
               /\ \A k \in StoreKeys : k[1] # id => disk'[k] = disk[k]]_vars

\* C30 witness: Delete has returned for an id of which nothing is stored
\* now, while a file of another id is still there.
C30_Witness ==
    /\ call.op = "Delete"
    /\ call.result = "nil"
    /\ ~Exists(call.id)
    /\ \E id \in JobIds : id # call.id /\ Exists(id)

\* C31: a record leaves the registry only by a call of DeleteJob for its id;
\* the record of a job at rest in completed or failed is changed by no step,
\* whatever the clock and the sweep do; and a failed job at rest carries its
\* error message, which GetJobStatus reads from the record.
C31_RegistryKeepsTerminalJobs ==
    /\ [][\A j \in JobIds :
            (j \in jobs /\ j \notin jobs') => (CallReturns("DeleteJob") /\ call'.id = j)]_vars
    /\ [][\A j \in JobIds : Terminal(j) => job'[j] = job[j]]_vars
    /\ [](\A j \in jobs :
            (Terminal(j) /\ Status(j) = JobStatusFailed) => job[j].ErrorMessage # "")

\* C31 witness: the job is completed and past its ExpiresAt, the sweep has
\* removed its audio file, no DeleteJob call was made, and the record is
\* still in the registry.
C31_Witness ==
    \E j \in jobs :
        /\ Terminal(j) /\ Status(j) = JobStatusCompleted
        /\ IsExpired(j, now)
        /\ job[j].ResultPath # "" /\ files[j] = NoTime
        /\ ncalls["DeleteJob"] = 0

\* C32: a job is created with progress 0; in every state the progress of
\* every job lies in 0..100 and is 100 only when the status is completed; and
\* no step lowers the progress of a job.
C32_ProgressMonotone ==
    /\ [][\A j \in JobIds :
            (spc[j] = "new" /\ spc'[j] # "new") => job'[j].ProgressPercentage = 0]_vars
    /\ [](\A j \in JobIds :
            /\ job[j].ProgressPercentage \in 0..100
            /\ job[j].ProgressPercentage = 100 => Status(j) = JobStatusCompleted)
    /\ [][\A j \in JobIds :
            job'[j].ProgressPercentage >= job[j].ProgressPercentage]_vars

\* C32 witness: one job is completed with progress 100 and the other, whose
\* audio could not be read, is failed with the progress it had reached, 70.
C32_Witness ==
    \E j, k \in JobIds :
        /\ Terminal(j) /\ Status(j) = JobStatusCompleted
        /\ job[j].ProgressPercentage = 100
        /\ Terminal(k) /\ Status(k) = JobStatusFailed
        /\ job[k].ProgressPercentage = 70

\* C33: StartedAt is written once, when the status has become processing,
\* and CompletedAt once, when the status has become completed or failed; a
\* value that is set is never changed or cleared, and CompletedAt is set only
\* on a job whose StartedAt is set.
C33_TimestampsSetOnce ==
    /\ [][\A j \in JobIds :
            /\ job[j].StartedAt # NoTime => job'[j].StartedAt = job[j].StartedAt
            /\ job[j].CompletedAt # NoTime => job'[j].CompletedAt = job[j].CompletedAt
            /\ job'[j].StartedAt # job[j].StartedAt
                  => (Status(j) = JobStatusProcessing /\ job'[j].StartedAt \in 0..now)
            /\ job'[j].CompletedAt # job[j].CompletedAt
                  => (/\ Status(j) \in {JobStatusCompleted, JobStatusFailed}
                      /\ job'[j].CompletedAt \in job[j].StartedAt..now)]_vars
    /\ [](\A j \in JobIds : job[j].CompletedAt # NoTime => job[j].StartedAt # NoTime)

\* C33 witness: the job started at time 0 and failed or completed an hour or
\* more later; it is at rest with both times in its record.
C33_Witness ==
    \E j \in JobIds :
        /\ Terminal(j)
        /\ job[j].StartedAt = 0
        /\ job[j].CompletedAt >= 1
        /\ now > job[j].CompletedAt

\* a worker claimed job j, found no record of it when it persisted the
\* processing status, and has left processJob
Abandoned(j) == claimCount[j] = 1 /\ AtRest(j) /\ Status(j) = JobStatusProcessing

\* C34: a worker whose UpdateJob after SetProcessing finds no record of the
\* job returns to its loop with the process running; for such a job
\* Synthesize is never called and no audio is stored, and the registry stays
\* without a record of it.
C34_DeletedJobAbandoned ==
    /\ [][\A w \in Workers :
            (wpc[w] = "UpdateJob.processing" /\ wjob[w] \notin jobs /\ wpc'[w] # wpc[w])
                => (wpc'[w] = "loop" /\ wjob'[w] = NoJob /\ ~crashed')]_vars
    /\ [](\A j \in JobIds :
            Abandoned(j) => (synthLog[j] = <<>> /\ files[j] = NoTime /\ j \notin jobs))
    /\ [][\A j \in JobIds : Abandoned(j) => Abandoned(j)']_vars

\* C34 witness: the first job was deleted while it waited in the channel and
\* the worker has abandoned it; the same worker now holds the second job and
\* has reached the Synthesize call for it.
C34_Witness ==
    \E j, k \in JobIds : \E w \in Workers :
        /\ j # k
        /\ Abandoned(j)
        /\ call = [op |-> "DeleteJob", id |-> j, result |-> "nil"]
        /\ wjob[w] = k /\ wpc[w] = "Synthesize.wait"

\* C35: the dispatch queue never holds more jobs than the capacity NewQueue
\* was given, and an Enqueue returns success only by a send made while the
\* queue holds fewer jobs than that, so a request that finds the queue full
\* stays in Enqueue until a worker has received a job.
C35_QueueBounded ==
    /\ [](Len(pending) <= bufferSize)
    /\ [][\A j \in JobIds :
            (spc[j] = "sending" /\ spc'[j] = "done")
                => (Len(pending) < bufferSize /\ pending' = Append(pending, j))]_vars
    /\ [][\A j \in JobIds :
            (spc[j] = "sending" /\ Len(pending) = bufferSize /\ ~closed /\ Len(pending') = bufferSize)
                => spc'[j] = "sending"]_vars

\* C35 witness: the queue is full with one job no worker has claimed, and
\* the request for another job is waiting in Enqueue.
C35_Witness ==
    \E j, k \in JobIds :
        /\ Len(pending) = bufferSize
        /\ pending = <<k>>
        /\ spc[j] = "sending" /\ j \in jobs
        /\ ~closed

\* C36: what Stats returns in any state is an exact tally: each of its four
\* counts is the number of jobs ListJobs returns for that status, and
\* TotalJobs is the sum of the four counts and the size of the registry.
C36_StatsExactTally ==
    /\ Stats.QueuedJobs = Cardinality(ListJobs(JobStatusQueued))
    /\ Stats.ProcessingJobs = Cardinality(ListJobs(JobStatusProcessing))
    /\ Stats.CompletedJobs = Cardinality(ListJobs(JobStatusCompleted))
    /\ Stats.FailedJobs = Cardinality(ListJobs(JobStatusFailed))
    /\ Stats.TotalJobs = Cardinality(jobs)
    /\ Stats.TotalJobs = Stats.QueuedJobs + Stats.ProcessingJobs
                            + Stats.CompletedJobs + Stats.FailedJobs

\* C37: Store, Delete and CleanupExpired exclude each other and every
\* Retrieve and Exists: while one caller is inside one of the three, every
\* other caller is outside the Storage; a file that os.WriteFile has opened
\* and not yet written belongs to the one Store that is inside, and the
\* directory listing a sweep works on holds no such file.
C37_StorageWritersExclusive ==
    /\ \A c \in StorageCallers : \A d \in StorageCallers \ {c} :
          inside[c].op \in WriteOps => inside[d] = Outside
    /\ \A k \in StoreKeys :
          HalfWritten(k) => \E c \in StorageCallers : inside[c].op = "Store" /\ inside[c].key = k
    /\ \A c \in StorageCallers :
          inside[c].op = "CleanupExpired" => \A k \in inside[c].entries : ~HalfWritten(k)

\* a Store is between opening and writing its file while another file in the
\* directory is past the retention period, so that a sweep is due
C37_Witness ==
    \E c \in StorageCallers :
        /\ inside[c].op = "Store"
        /\ HalfWritten(inside[c].key)
        /\ \E k \in StoreKeys \ {inside[c].key} : Expired(k, RetentionHours)
        /\ \A d \in StorageCallers \ {c} : inside[d] = Outside

\* C38: a job whose Enqueue returned an error (the queue was closed, or the
\* caller's context ended while the buffer was full) is not in the registry,
\* so every queued registry job is being sent, is in the dispatch queue or is
\* held by a worker.
C38_FailedEnqueueLeavesNoJob ==
    /\ \A j \in JobIds : spc[j] \in {"rejected", "canceled"} => j \notin jobs
    /\ \A j \in jobs :
          Status(j) = JobStatusQueued =>
              \/ spc[j] = "sending"
              \/ InPending(j)
              \/ \E w \in Workers : wjob[w] = j

\* C39: an Enqueue that overlaps Close never sends on the closed channel:
\* the process does not panic, and every Enqueue that has ended either sent
\* its job ("done") or returned an error ("rejected", "canceled").
C39_EnqueueSurvivesClose ==
    /\ ~crashed
    /\ \A j \in JobIds : spc[j] \in {"unused", "new", "sending", "done", "rejected", "canceled"}

\* C40: audio is stored only for jobs of the registry: every step that
\* writes the file of a job finds the job in the registry, also when the job
\* was deleted while a worker was processing it.
C40_AudioOnlyForRegistryJobs ==
    [][\A j \in JobIds : (files'[j] # files[j] /\ files'[j] # NoTime) => j \in jobs]_vars
====
